---- MODULE Spec2Model ----
(***************************************************************************)
(* A model of mountains/fix-peak-names-with-elevation.py: the tool that    *)
(* reads an OSM document, finds peak/hill nodes whose name carries an      *)
(* elevation, cross-checks the elevation against Kartverket's DTM service  *)
(* and rewrites the node.                                                  *)
(*                                                                         *)
(* Strings are sequences of one-character strings.  The character "NL"     *)
(* stands for a newline: whitespace for \s, not matched by the regex dot.  *)
(* An optional value (Python's None) is the empty tuple, a present value z *)
(* is the one-element tuple <<z>>.                                         *)
(***************************************************************************)
EXTENDS Integers, Sequences, FiniteSets, TLC

VARIABLES
    doc,        \* the element tree: the sequence of the root's children
    input,      \* the document as ET.parse read it at the start of this run
    idx,        \* position of the for loop over the root's children
    pc,         \* "loop", "done" (output printed) or "raised" (uncaught exception)
    exc,        \* the exception that ended the run, "" when none
    output,     \* what was printed: <<>> when nothing, else <<document>>
    log,        \* the warnings logged by this run
    requests,   \* the HTTP requests this run sent to the DTM service
    dtm,        \* what the DTM service answered per coordinate (<<>>: not asked yet)
    pass,       \* 1 for a run on the original input, 2 for a run on the own output
    cname,      \* classifier harness: the name given to the two patterns
    cmatch,     \* classifier harness: <<>> or <<the match>>
    ge_coords,  \* get_elevation harness: the list of coordinates requested
    ge_svc,     \* get_elevation harness: what each tier knows per coordinate
    ge_fail,    \* get_elevation harness: which request fails (0: none)
    ge_out      \* get_elevation harness: <<>> or <<the outcome of the call>>

vars == <<doc, input, idx, pc, exc, output, log, requests, dtm, pass,
          cname, cmatch, ge_coords, ge_svc, ge_fail, ge_out>>

mainVars == <<doc, input, idx, pc, exc, output, log, requests, dtm, pass>>
classifyVars == <<cname, cmatch>>
geVars == <<ge_coords, ge_svc, ge_fail, ge_out>>

-----------------------------------------------------------------------------
(* Bounds of the model.                                                    *)

MaxNodes == 2       \* nodes in a document
MaxNameLen == 4     \* length of the names given to the classifier harness
MaxCoords == 2      \* length of the short coordinate lists given to get_elevation

-----------------------------------------------------------------------------
(* Characters, strings and the conversions between strings and numbers.    *)

None == <<>>
Some(x) == <<x>>

Digits == <<"0", "1", "2", "3", "4", "5", "6", "7", "8", "9">>

IsDigit(c) == \E d \in 1..10 : Digits[d] = c

DigitVal(c) == (CHOOSE d \in 1..10 : Digits[d] = c) - 1

IsSpace(c) == c \in {" ", "NL"}

IsDot(c) == c # "NL"

\* The characters of s from position from to position to are all of a class.
NonDigits(s, from, to) == \A p \in from..to : ~IsDigit(s[p])
AllDigits(s, from, to) == \A p \in from..to : IsDigit(s[p])
AllSpace(s, from, to) == \A p \in from..to : IsSpace(s[p])
AllDot(s, from, to) == \A p \in from..to : IsDot(s[p])

Abs(x) == IF x < 0 THEN -x ELSE x

Min(a, b) == IF a < b THEN a ELSE b

RECURSIVE DecimalValue(_)
DecimalValue(s) ==
    IF s = <<>> THEN 0
    ELSE 10 * DecimalValue(SubSeq(s, 1, Len(s) - 1)) + DigitVal(s[Len(s)])

RECURSIVE Strip(_)
Strip(s) ==
    IF s = <<>> THEN s
    ELSE IF IsSpace(s[1]) THEN Strip(Tail(s))
    ELSE IF IsSpace(s[Len(s)]) THEN Strip(SubSeq(s, 1, Len(s) - 1))
    ELSE s

\* float(s): surrounding whitespace is ignored; None stands for ValueError.
ParseFloat(s) ==
    LET t == Strip(s)
    IN  IF t # <<>> /\ AllDigits(t, 1, Len(t))
        THEN Some(DecimalValue(t))
        ELSE None

\* str(n) of a non-negative integer.
RECURSIVE ToStr(_)
ToStr(n) ==
    IF n < 10 THEN <<Digits[n + 1]>>
    ELSE ToStr(n \div 10) \o <<Digits[(n % 10) + 1]>>

-----------------------------------------------------------------------------
(* The name classifier: the two patterns and their use in main.            *)

\* t is tried before u by a backtracking matcher whose quantifiers are greedy.
RECURSIVE GreedyBefore(_, _)
GreedyBefore(t, u) ==
    IF t = <<>> THEN TRUE
    ELSE IF t[1] # u[1] THEN t[1] > u[1]
    ELSE GreedyBefore(Tail(t), Tail(u))

Greedy(S) == CHOOSE t \in S : \A u \in S : GreedyBefore(t, u)

\* ([^0-9]*)\s+([0-9]+)(.*) : the lengths <<i, j, k>> of group 1, of the
\* whitespace run and of group 2 in every way the whole of s matches.
Splits1(s) ==
    LET n == Len(s)
    IN  {t \in (0..n) \X (1..n) \X (1..n) :
            /\ t[1] + t[2] + t[3] <= n
            /\ NonDigits(s, 1, t[1])
            /\ AllSpace(s, t[1] + 1, t[1] + t[2])
            /\ AllDigits(s, t[1] + t[2] + 1, t[1] + t[2] + t[3])
            /\ AllDot(s, t[1] + t[2] + t[3] + 1, n)}

\* ([0-9]+)\s*(.*) : the lengths <<k, j>> of group 1 and of the whitespace run.
Splits2(s) ==
    LET n == Len(s)
    IN  {t \in (1..n) \X (0..n) :
            /\ t[1] + t[2] <= n
            /\ AllDigits(s, 1, t[1])
            /\ AllSpace(s, t[1] + 1, t[1] + t[2])
            /\ AllDot(s, t[1] + t[2] + 1, n)}

name_with_elevation_pattern(s) ==
    IF Splits1(s) = {} THEN None
    ELSE LET t == Greedy(Splits1(s))
         IN  Some(<<SubSeq(s, 1, t[1]),
                    SubSeq(s, t[1] + t[2] + 1, t[1] + t[2] + t[3]),
                    SubSeq(s, t[1] + t[2] + t[3] + 1, Len(s))>>)

only_elevation_pattern(s) ==
    IF Splits2(s) = {} THEN None
    ELSE LET t == Greedy(Splits2(s))
         IN  Some(<<SubSeq(s, 1, t[1]), SubSeq(s, t[1] + t[2] + 1, Len(s))>>)

\* The classification main makes of a name: None when neither pattern matches.
Classify(name) ==
    LET m1 == name_with_elevation_pattern(name)
        m2 == only_elevation_pattern(name)
    IN  IF m1 # None
        THEN Some([name_without_ele |-> m1[1][1], ele |-> m1[1][2], rest |-> m1[1][3]])
        ELSE IF m2 # None
        THEN Some([name_without_ele |-> <<>>, ele |-> m2[1][1], rest |-> m2[1][2]])
        ELSE None

-----------------------------------------------------------------------------
(* get_elevation: the tiered lookup of a list of coordinates.              *)
(* svc[e][point] is what tier e knows of the point: None (z is null) or    *)
(* Some(z).  fail is the number of the request that ends in an HTTPError,  *)
(* counted from 1 over the requests of the call, 0 when none does.  The    *)
(* requests sent are recorded, each with whether it failed.                *)

BatchSize == 50

Endpoints == <<"datakilder/dtm1/punkt", "punkt">>

\* Mutant: the first endpoint taken for the last pass.
IsFirstPass(endpoint) == endpoint = "datakilder/dtm1/punkt"

IsLastPass(endpoint) == endpoint = "punkt"

\* The loop over result['punkter'] of one response: the service answers for
\* every point of the request, in order.  A point with an elevation is stored;
\* one without is stored as None in the last pass and is pending otherwise.
StorePoints(st, endpoint, answers, points) ==
    LET known == {i \in 1..Len(points) : answers[points[i]] # None}
        unknown == (1..Len(points)) \ known
        stored == IF IsLastPass(endpoint) THEN 1..Len(points) ELSE known
        IsUnknown(point) == answers[point] = None
    IN  [st EXCEPT
            !.elevations =
                [point \in DOMAIN st.elevations \cup {points[i] : i \in stored} |->
                    IF \E i \in stored : points[i] = point
                    THEN answers[point]
                    ELSE st.elevations[point]],
            !.count_missing =
                IF IsLastPass(endpoint) THEN st.count_missing + Cardinality(unknown)
                ELSE st.count_missing,
            !.pending_coords =
                IF IsLastPass(endpoint) THEN st.pending_coords
                ELSE st.pending_coords \o SelectSeq(points, IsUnknown)]

\* The loop over the batches of one endpoint, from offset i.
RECURSIVE BatchLoop(_, _, _, _, _, _)
BatchLoop(st, e, endpoint_list, i, svc, fail) ==
    IF i >= Len(endpoint_list) THEN st
    ELSE LET batch == SubSeq(endpoint_list, i + 1, Min(i + BatchSize, Len(endpoint_list)))
             sent == [st EXCEPT !.requests =
                         Append(st.requests,
                                [endpoint |-> Endpoints[e], points |-> batch,
                                 failed |-> (fail = Len(st.requests) + 1)])]
         IN  IF fail = Len(sent.requests)
             THEN [sent EXCEPT !.raised = TRUE]
             ELSE BatchLoop(StorePoints(sent, Endpoints[e], svc[e], batch),
                            e, endpoint_list, i + BatchSize, svc, fail)

\* The loop over the endpoints, from endpoint number e.
RECURSIVE EndpointLoop(_, _, _, _)
EndpointLoop(st, e, svc, fail) ==
    IF e > Len(Endpoints) THEN st
    ELSE LET st1 == BatchLoop([st EXCEPT !.pending_coords = <<>>], e,
                              st.pending_coords, 0, svc, fail)
         IN  IF st1.raised THEN st1 ELSE EndpointLoop(st1, e + 1, svc, fail)

\* The call: raised tells an HTTPError left it, elevations is what it returns.
get_elevation(coords, svc, fail) ==
    EndpointLoop([elevations |-> <<>>, count_missing |-> 0, pending_coords |-> coords,
                  requests |-> <<>>, raised |-> FALSE], 1, svc, fail)

-----------------------------------------------------------------------------
(* main: one iteration of the loop over the root's children.               *)
(* A child element is [tag, k, v, kids]: its element name, its k and v     *)
(* attributes and the number of its own children.  A node is               *)
(* [lat, lon, tags] with tags the sequence of its children.                *)

get_coord(node_element) == <<node_element.lon, node_element.lat>>

mk_tag_element(name, value) == [tag |-> "tag", k |-> name, v |-> value, kids |-> 0]

\* The loop over the children of a node, from child p: every tag with one of
\* the three keys is assigned to its variable, 0 standing for None.
RECURSIVE ScanFrom(_, _, _)
ScanFrom(tags, p, found) ==
    IF p > Len(tags) THEN found
    ELSE ScanFrom(tags, p + 1,
            IF tags[p].tag # "tag" THEN found
            ELSE IF tags[p].k = "name" THEN [found EXCEPT !.name_tag = p]
            ELSE IF tags[p].k = "ele" THEN [found EXCEPT !.ele_tag = p]
            ELSE IF tags[p].k = "natural" THEN [found EXCEPT !.natural_tag = p]
            ELSE found)

\* Mutant: a variable that is set is not assigned again, the first tag stays.
RECURSIVE ScanFirstFrom(_, _, _)
ScanFirstFrom(tags, p, found) ==
    IF p > Len(tags) THEN found
    ELSE ScanFirstFrom(tags, p + 1,
            IF tags[p].tag # "tag" THEN found
            ELSE IF tags[p].k = "name" /\ found.name_tag = 0
            THEN [found EXCEPT !.name_tag = p]
            ELSE IF tags[p].k = "ele" /\ found.ele_tag = 0
            THEN [found EXCEPT !.ele_tag = p]
            ELSE IF tags[p].k = "natural" /\ found.natural_tag = 0
            THEN [found EXCEPT !.natural_tag = p]
            ELSE found)

ScanTagsFirst(tags) ==
    ScanFirstFrom(tags, 1, [name_tag |-> 0, ele_tag |-> 0, natural_tag |-> 0])

ScanTags(tags) == ScanFrom(tags, 1, [name_tag |-> 0, ele_tag |-> 0, natural_tag |-> 0])

PEAK == <<"p", "e", "a", "k">>
HILL == <<"h", "i", "l", "l">>

\* Mutant: any natural tag makes a candidate.
IsCandidateAnyNatural(tags, found) == found.natural_tag # 0

IsCandidate(tags, found) ==
    found.natural_tag # 0 /\ tags[found.natural_tag].v \in {PEAK, HILL}

\* The truth value of an Element: whether it has children.
Truthy(element) == element.kids # 0

ExistingEle(tags, found) ==
    IF found.ele_tag # 0 /\ Truthy(tags[found.ele_tag])
    THEN tags[found.ele_tag].v
    ELSE <<>>

\* Mutant: a difference of 20 is rejected too.
DtmRejectFrom20(dmt_ele, ele) == Abs(dmt_ele - ParseFloat(ele)[1]) >= 20

DtmReject(dmt_ele, ele) == Abs(dmt_ele - ParseFloat(ele)[1]) > 20

ExistingReject(ele, existing_ele) ==
    Abs(ParseFloat(ele)[1] - ParseFloat(existing_ele)[1]) > 10

\* Mutant: the audit tags are appended before the new ele tag.
RewriteEleLast(tags, name_tag, name_without_ele, ele, name, dmt_ele) ==
    [tags EXCEPT ![name_tag].v = name_without_ele]
        \o <<mk_tag_element("NOTE", <<"fixed name with elevation">>),
             mk_tag_element("name:original", name),
             mk_tag_element("ele:kartverket-dmt", ToStr(dmt_ele)),
             mk_tag_element("ele", ele)>>

\* Mutant: the name tag keeps its value.
RewriteKeepingName(tags, name_tag, name_without_ele, ele, name, dmt_ele) ==
    tags
        \o <<mk_tag_element("ele", ele),
             mk_tag_element("NOTE", <<"fixed name with elevation">>),
             mk_tag_element("name:original", name),
             mk_tag_element("ele:kartverket-dmt", ToStr(dmt_ele))>>

Rewrite(tags, name_tag, name_without_ele, ele, name, dmt_ele) ==
    [tags EXCEPT ![name_tag].v = name_without_ele]
        \o <<mk_tag_element("ele", ele),
             mk_tag_element("NOTE", <<"fixed name with elevation">>),
             mk_tag_element("name:original", name),
             mk_tag_element("ele:kartverket-dmt", ToStr(dmt_ele))>>

\* A logged warning "Skipping {name}" with the value it shows, if any.
Warning(name, what, value) == [name |-> name, what |-> what, value |-> value]

\* Mutant: the HTTPError is caught and not raised again.
LookupErrorSwallowed == ""

\* The exception an HTTPError of the lookup leaves main with.
LookupError == "HTTPError"

\* The loop body on one node.  a[e] is what tier e of the DTM service knows
\* of the node's coordinate and fail the request that fails, if any.
Body(node, a, fail) ==
    LET tags == node.tags
        found == ScanTags(tags)
        skip == [tags |-> tags, log |-> <<>>, requests |-> <<>>, exc |-> "",
                 returned |-> FALSE]
    IN  IF ~IsCandidate(tags, found) THEN skip
        ELSE IF found.name_tag = 0 THEN skip
        ELSE
        LET name == tags[found.name_tag].v
            m == Classify(name)
        IN  IF m = None THEN skip
            ELSE
            LET name_without_ele == m[1].name_without_ele
                ele == m[1].ele
                rest == m[1].rest
                existing_ele == ExistingEle(tags, found)
            IN  IF Len(rest) > 0
                THEN [skip EXCEPT !.log = <<Warning(name, "", <<>>)>>]
                ELSE
                LET coord == get_coord(node)
                    call == get_elevation(<<coord>>,
                                [e \in 1..Len(Endpoints) |-> (coord :> a[e])], fail)
                    sent == [skip EXCEPT !.requests = call.requests]
                IN  IF call.raised THEN [sent EXCEPT !.exc = LookupError]
                    ELSE
                    LET dmt_ele == call.elevations[coord]
                        back == [sent EXCEPT !.returned = TRUE]
                    IN  IF dmt_ele = None THEN [back EXCEPT !.exc = "TypeError"]
                        ELSE IF DtmReject(dmt_ele[1], ele)
                        THEN [back EXCEPT !.log =
                                <<Warning(name, "dmt_ele", ToStr(dmt_ele[1]))>>]
                        ELSE IF existing_ele # <<>> /\ ParseFloat(existing_ele) = None
                        THEN [back EXCEPT !.exc = "ValueError"]
                        ELSE IF existing_ele # <<>> /\ ExistingReject(ele, existing_ele)
                        THEN [back EXCEPT !.log =
                                <<Warning(name, "existing_ele", existing_ele)>>]
                        ELSE [back EXCEPT !.tags =
                                Rewrite(tags, found.name_tag, name_without_ele, ele,
                                        name, dmt_ele[1])]

-----------------------------------------------------------------------------
(* The inputs: documents, and the answers of the DTM service.              *)

Tag(k, v) == [tag |-> "tag", k |-> k, v |-> v, kids |-> 0]

\* A tag element that has a child element of its own.
TagK(k, v) == [tag |-> "tag", k |-> k, v |-> v, kids |-> 1]

TREE == <<"t", "r", "e", "e">>

NaturalOpts ==
    {<<>>, <<Tag("natural", PEAK)>>, <<Tag("natural", HILL)>>, <<Tag("natural", TREE)>>,
     <<Tag("natural", PEAK), Tag("natural", TREE)>>,
     <<Tag("natural", TREE), Tag("natural", PEAK)>>}

NameValues ==
    {<<"a", " ", "3", "0">>, <<"3", "0">>, <<"a">>, <<"a", " ", " ", "3", "0">>,
     <<"3", "0", " ", "a">>, <<"a", " ", "3", "0", "b">>}

NameOpts ==
    {<<>>} \cup {<<Tag("name", n)>> : n \in NameValues}
    \cup {<<Tag("name", <<"a", " ", "3", "0">>), Tag("name", <<"a">>)>>,
          <<Tag("name", <<"a">>), Tag("name", <<"a", " ", "3", "0">>)>>,
          <<[tag |-> "nd", k |-> "name", v |-> <<"3", "0">>, kids |-> 0]>>}

EleOpts ==
    {<<>>, <<TagK("ele", <<"2", "0">>)>>, <<TagK("ele", <<"1", "9">>)>>,
     <<Tag("ele", <<"1", "9">>)>>, <<TagK("ele", <<"4", "1">>)>>, <<TagK("ele", <<"a">>)>>,
     <<TagK("ele", <<"1", "9">>), TagK("ele", <<"2", "0">>)>>,
     <<TagK("ele", <<"2", "0">>), TagK("ele", <<"1", "9">>)>>}

\* The names that match with an empty remainder when they are the last name.
CleanNameOpts ==
    {<<Tag("name", <<"a", " ", "3", "0">>)>>, <<Tag("name", <<"3", "0">>)>>,
     <<Tag("name", <<"a", " ", " ", "3", "0">>)>>,
     <<Tag("name", <<"a">>), Tag("name", <<"a", " ", "3", "0">>)>>}

\* The nodes whose processing is explored in full, at one coordinate: a peak
\* with a name that matches cleanly and every choice of ele tags; a peak with
\* any other choice of name tags, with and without an ele tag; and every
\* choice of natural tags over a name that matches cleanly.
RichTags ==
    {<<Tag("natural", PEAK)>> \o nam \o ele : nam \in CleanNameOpts, ele \in EleOpts}
    \cup {<<Tag("natural", PEAK)>> \o nam \o ele :
            nam \in NameOpts, ele \in {<<>>, <<TagK("ele", <<"1", "9">>)>>}}
    \cup {nat \o nam \o ele :
            nat \in NaturalOpts,
            nam \in {<<Tag("name", <<"a", " ", "3", "0">>)>>},
            ele \in {<<>>, <<TagK("ele", <<"2", "0">>)>>}}

RichNodes == {[lat |-> 60, lon |-> 10, tags |-> t] : t \in RichTags}

\* The nodes that stand before and after them, at another coordinate.
PlainTags ==
       {<<Tag("natural", TREE), Tag("name", <<"a", " ", "3", "0">>), Tag("ele", <<"7">>)>>,
        <<Tag("natural", PEAK), Tag("name", <<"3", "0">>)>>}

PlainNodes == {[lat |-> 61, lon |-> 11, tags |-> t] : t \in PlainTags}

Coords == {get_coord(n) : n \in RichNodes \cup PlainNodes}

\* The documents: up to MaxNodes nodes, one of them a rich node.
Docs ==
    UNION {{SubSeq(others, 1, p - 1) \o <<rich>> \o SubSeq(others, p, n - 1) :
                others \in [1..(n - 1) -> PlainNodes], p \in 1..n, rich \in RichNodes} :
           n \in 1..MaxNodes}

\* The elevations the DTM service may report.
DtmValues == {9, 10, 50, 51}

\* What the two tiers know of one coordinate.  The second tier is asked only
\* when the first knows nothing, so only then is its answer part of the input.
Answers ==
    {<<Some(z), None>> : z \in DtmValues}
    \cup {<<None, z2>> : z2 \in {None} \cup {Some(z) : z \in DtmValues}}

-----------------------------------------------------------------------------
(* The run of main.                                                        *)

InitMain ==
    /\ doc \in Docs
    /\ input = doc
    /\ idx = 1
    /\ pc = "loop"
    /\ exc = ""
    /\ output = None
    /\ log = <<>>
    /\ requests = <<>>
    /\ dtm = [c \in Coords |-> None]
    /\ pass = 1

IdleMain ==
    /\ doc = <<>> /\ input = <<>> /\ idx = 1 /\ pc = "idle" /\ exc = ""
    /\ output = None /\ log = <<>> /\ requests = <<>>
    /\ dtm = [c \in Coords |-> None] /\ pass = 1

IdleClassify == cname = <<>> /\ cmatch = None

IdleElevation == ge_coords = <<>> /\ ge_svc = <<>> /\ ge_fail = 0 /\ ge_out = None

Init == InitMain /\ IdleClassify /\ IdleElevation

\* Whether the loop body on the node reaches the call of get_elevation.
Looksup(node) == Body(node, <<None, None>>, 1).requests # <<>>

\* One iteration of the loop of main: lines 119 to 178.  The service is
\* asked, and may fail, only when the body reaches the lookup; a coordinate
\* it has answered for is answered for in the same way again.
ProcessNode ==
    /\ pc = "loop"
    /\ idx <= Len(doc)
    /\ LET coord == get_coord(doc[idx])
           asks == Looksup(doc[idx])
       IN  \E a \in (IF dtm[coord] # None THEN {dtm[coord][1]}
                     ELSE IF asks THEN Answers ELSE {<<None, None>>}),
              fail \in (IF asks THEN 0..Len(Endpoints) ELSE {0}) :
            \E r \in {Body(doc[idx], a, fail)} :
                /\ doc' = [doc EXCEPT ![idx].tags = r.tags]
                /\ log' = log \o r.log
                /\ requests' = requests \o r.requests
                /\ dtm' = IF r.returned THEN [dtm EXCEPT ![coord] = Some(a)] ELSE dtm
                /\ exc' = r.exc
                /\ pc' = IF r.exc = "" THEN "loop" ELSE "raised"
                /\ idx' = IF r.exc = "" THEN idx + 1 ELSE idx
    /\ UNCHANGED <<input, output, pass, classifyVars, geVars>>

\* The end of the loop: the tree is serialised and printed, lines 180 to 181.
Finish ==
    /\ pc = "loop"
    /\ idx > Len(doc)
    /\ output' = Some(doc)
    /\ pc' = "done"
    /\ UNCHANGED <<doc, input, idx, exc, log, requests, dtm, pass, classifyVars, geVars>>

\* The tool is run again, on what the previous run printed: lines 114 to 117.
Rerun ==
    /\ pc = "done"
    /\ pass = 1
    /\ doc' = output[1]
    /\ input' = output[1]
    /\ idx' = 1
    /\ pc' = "loop"
    /\ output' = None
    /\ log' = <<>>
    /\ requests' = <<>>
    /\ pass' = pass + 1
    /\ UNCHANGED <<exc, dtm, classifyVars, geVars>>

Next == ProcessNode \/ Finish \/ Rerun

Spec == Init /\ [][Next]_vars

-----------------------------------------------------------------------------
(* The classifier on its own: every name over a small alphabet.            *)

Alphabet == {"a", " ", "NL", "1", "2"}

Names == UNION {[1..n -> Alphabet] : n \in 0..MaxNameLen}

InitClassify ==
    /\ cname \in Names
    /\ cmatch = None
    /\ IdleMain /\ IdleElevation

\* Lines 143 to 155 on the name.
ClassifyName ==
    /\ cmatch = None
    /\ cmatch' = Some(Classify(cname))
    /\ UNCHANGED <<cname, mainVars, geVars>>

SpecClassify == InitClassify /\ [][ClassifyName]_vars

-----------------------------------------------------------------------------
(* get_elevation on its own: lists of coordinates, short ones and ones     *)
(* longer than a batch, and every answer of the two tiers.                 *)

ShortLists == UNION {[1..n -> Coords] : n \in 0..MaxCoords}

\* Lists of BatchSize + 1 coordinates: the last one goes into a second request.
LongLists ==
    {[i \in 1..(BatchSize + 1) |-> IF i <= n THEN first ELSE last] :
        n \in {1, BatchSize}, first \in Coords, last \in Coords}

TierAnswers == [Coords -> {None, Some(10), Some(50)}]

InitElevation ==
    /\ ge_coords \in ShortLists \cup LongLists
    /\ ge_svc \in [1..Len(Endpoints) -> TierAnswers]
    /\ ge_fail \in 0..(2 * Len(Endpoints))
    /\ ge_out = None
    /\ IdleMain /\ IdleClassify

\* A call of get_elevation: lines 19 to 79.
CallGetElevation ==
    /\ ge_out = None
    /\ ge_out' = Some(get_elevation(ge_coords, ge_svc, ge_fail))
    /\ UNCHANGED <<ge_coords, ge_svc, ge_fail, mainVars, classifyVars>>

SpecElevation == InitElevation /\ [][CallGetElevation]_vars

-----------------------------------------------------------------------------
(* What the properties speak of.  A node is touched only in its own        *)
(* iteration, so input[i] is node i as its iteration found it and doc[i]    *)
(* is the node as the iteration left it.                                    *)

\* The nodes whose iteration has ended without an exception.
Processed == 1..(idx - 1)

IsTag(t, k) == t.tag = "tag" /\ t.k = k

TagsOf(tags, k) == {p \in 1..Len(tags) : IsTag(tags[p], k)}

FirstOf(tags, k) ==
    IF TagsOf(tags, k) = {} THEN 0
    ELSE CHOOSE p \in TagsOf(tags, k) : \A q \in TagsOf(tags, k) : p <= q

LastOf(tags, k) ==
    IF TagsOf(tags, k) = {} THEN 0
    ELSE CHOOSE p \in TagsOf(tags, k) : \A q \in TagsOf(tags, k) : p >= q

\* The attribute values of the input documents, and with them the names a
\* rewriting leaves: every value a name tag can have in a run.
InputValues == UNION {{t[p].v : p \in 1..Len(t)} : t \in RichTags \cup PlainTags}

NamesInPlay ==
    InputValues
    \cup {Classify(n)[1].name_without_ele : n \in {v \in InputValues : Classify(v) # None}}

\* The classification of each of these names, computed once.
Match == [n \in NamesInPlay |-> Classify(n)]

\* The node is a candidate whose name matches with an empty remainder.
MatchedEmpty(tags) ==
    LET found == ScanTags(tags)
    IN  /\ IsCandidate(tags, found)
        /\ found.name_tag # 0
        /\ Match[tags[found.name_tag].v] # None
        /\ Match[tags[found.name_tag].v][1].rest = <<>>

NameOf(tags) == tags[ScanTags(tags).name_tag].v

Claimed(tags) == DecimalValue(Match[NameOf(tags)][1].ele)

\* The elevation the tiers give for a coordinate they have answered for.
DtmOf(node) ==
    LET a == dtm[get_coord(node)][1]
    IN  IF a[1] # None THEN a[1] ELSE a[2]

Answered(node) == dtm[get_coord(node)] # None

Logged(w) == \E l \in 1..Len(log) : log[l] = w

HasTag(tags, k) == TagsOf(tags, k) # {}

\* C1: a candidate node whose name matched with an empty remainder and whose
\* DTM elevation is known is rejected by the DTM check (left unmodified, with
\* the warning that shows the DTM value logged) exactly when the DTM and the
\* claimed elevation differ by more than 20.
C1_DtmTolerance ==
    \A i \in Processed :
        (MatchedEmpty(input[i].tags) /\ Answered(input[i]) /\ DtmOf(input[i]) # None) =>
            LET d == DtmOf(input[i])[1]
                rejected ==
                    /\ doc[i] = input[i]
                    /\ Logged(Warning(NameOf(input[i].tags), "dmt_ele", ToStr(d)))
            IN  rejected <=> (Abs(d - Claimed(input[i].tags)) > 20)

\* C1 witness: one node rewritten at a difference of exactly 20 and another
\* rejected, with its warning, at a difference of exactly 21.
C1_Witness ==
    \E i \in Processed, j \in Processed :
        /\ MatchedEmpty(input[i].tags) /\ MatchedEmpty(input[j].tags)
        /\ DtmOf(input[i]) # None /\ DtmOf(input[j]) # None
        /\ Abs(DtmOf(input[i])[1] - Claimed(input[i].tags)) = 20
        /\ doc[i] # input[i]
        /\ Abs(DtmOf(input[j])[1] - Claimed(input[j].tags)) = 21
        /\ doc[j] = input[j]
        /\ Logged(Warning(NameOf(input[j].tags), "dmt_ele", ToStr(DtmOf(input[j])[1])))

\* Every name tag of the node fails to match, or matches with a remainder.
NoCleanName(tags) ==
    \A p \in TagsOf(tags, "name") :
        Match[tags[p].v] = None \/ Match[tags[p].v][1].rest # <<>>

\* The node is not a candidate, has no name, or has no name that matches
\* with an empty remainder.
Unmatched(tags) ==
    \/ \A p \in TagsOf(tags, "natural") : tags[p].v \notin {PEAK, HILL}
    \/ ~HasTag(tags, "name")
    \/ NoCleanName(tags)

\* C4: a node that is not a candidate, has no name tag, or has no name that
\* matches with an empty remainder keeps its tags as read and is printed
\* with them; its iteration asks the DTM service nothing and raises nothing,
\* so the loop goes on to the next node.
C4_UnmatchedPassThrough ==
    /\ \A i \in 1..Len(doc) : Unmatched(input[i].tags) => doc[i] = input[i]
    /\ pc = "done" =>
            \A i \in 1..Len(doc) : Unmatched(input[i].tags) => output[1][i] = input[i]
    /\ (\A i \in 1..Len(doc) : i <= idx => Unmatched(input[i].tags)) =>
            requests = <<>> /\ pc # "raised"
    /\ pc = "raised" => ~Unmatched(input[idx].tags)

\* C4 witness: the run has printed a document in which a candidate with an
\* ele tag and a name with a remainder stands before a node it has rewritten.
C4_Witness ==
    /\ pc = "done"
    /\ \E i \in 1..Len(doc), j \in 1..Len(doc) :
        /\ i < j
        /\ Unmatched(input[i].tags) /\ HasTag(input[i].tags, "ele")
        /\ IsCandidate(input[i].tags, ScanTags(input[i].tags))
        /\ \E p \in TagsOf(input[i].tags, "name") : Match[input[i].tags[p].v] # None
        /\ output[1][j] # input[j]

\* The tags new are the tags old rewritten: one name tag set to the name part
\* of its value, then the four tags appended, nothing else changed.
RewrittenFrom(old, new, dmt_ele) ==
    /\ Len(new) = Len(old) + 4
    /\ \E p \in TagsOf(old, "name") :
        /\ Match[old[p].v] # None
        /\ new[p] = [old[p] EXCEPT !.v = Match[old[p].v][1].name_without_ele]
        /\ \A q \in (1..Len(old)) \ {p} : new[q] = old[q]
        /\ new[Len(old) + 1] =
                [tag |-> "tag", k |-> "ele", v |-> Match[old[p].v][1].ele, kids |-> 0]
        /\ new[Len(old) + 2] =
                [tag |-> "tag", k |-> "NOTE", v |-> <<"fixed name with elevation">>,
                 kids |-> 0]
        /\ new[Len(old) + 3] =
                [tag |-> "tag", k |-> "name:original", v |-> old[p].v, kids |-> 0]
        /\ new[Len(old) + 4] =
                [tag |-> "tag", k |-> "ele:kartverket-dmt", v |-> ToStr(dmt_ele),
                 kids |-> 0]

\* C6: a node the run has changed is the node as read with the value of a
\* name tag set to the name part and, appended in this order, ele (the claimed
\* digits), NOTE, name:original (the full name) and ele:kartverket-dmt (the
\* DTM elevation); every other tag, a previous ele tag included, is kept, and
\* so is the coordinate.  Only a node whose iteration has run is changed.
C6_RewriteFrame ==
    \A i \in 1..Len(doc) :
        doc[i] # input[i] =>
            /\ i <= idx
            /\ doc[i].lat = input[i].lat /\ doc[i].lon = input[i].lon
            /\ Answered(input[i]) /\ DtmOf(input[i]) # None
            /\ RewrittenFrom(input[i].tags, doc[i].tags, DtmOf(input[i])[1])

\* C6 witness: a rewritten node that had an ele tag keeps it beside the new
\* one, next to a node that is as it was read.
C6_Witness ==
    \E i \in Processed, j \in Processed :
        /\ doc[i] # input[i]
        /\ HasTag(input[i].tags, "ele")
        /\ Cardinality(TagsOf(doc[i].tags, "ele")) = Cardinality(TagsOf(input[i].tags, "ele")) + 1
        /\ i # j /\ doc[j] = input[j]

\* C9: a lookup request that fails is the last request of the run: the run
\* has ended with the HTTPError, nothing is printed, and neither the node
\* being validated nor any later node is rewritten.
C9_LookupFailureAborts ==
    \A r \in 1..Len(requests) :
        requests[r].failed =>
            /\ r = Len(requests)
            /\ pc = "raised" /\ exc = "HTTPError"
            /\ output = None
            /\ \A i \in idx..Len(doc) : doc[i] = input[i]

\* C9 witness: the second request of a lookup has failed, after an earlier
\* node was rewritten and with a node still to come.
C9_Witness ==
    /\ Len(requests) > 2
    /\ requests[Len(requests)].failed
    /\ requests[Len(requests)].endpoint = "punkt"
    /\ idx > 1 /\ doc[1] # input[1]

\* The tiers in the order the lookup is to try them.
TierOrder == <<"datakilder/dtm1/punkt", "punkt">>

TierOf(request) == CHOOSE t \in 1..Len(TierOrder) : TierOrder[t] = request.endpoint

Sent(reqs, t, point) ==
    \E r \in 1..Len(reqs) :
        /\ reqs[r].endpoint = TierOrder[t]
        /\ \E q \in 1..Len(reqs[r].points) : reqs[r].points[q] = point

Requested == {ge_coords[q] : q \in 1..Len(ge_coords)}

\* C10: when a call of get_elevation returns, its requests went to the tiers
\* in the order datakilder/dtm1/punkt, punkt; a coordinate is not available
\* only if every tier was asked for it and had no elevation; a coordinate the
\* first tier resolved was not sent to the second; and every requested
\* coordinate has an entry, a number or not available, with none left pending.
C10_TieredLookup ==
    (ge_out # None /\ ~ge_out[1].raised) =>
        LET out == ge_out[1]
            reqs == out.requests
        IN  /\ \A r1 \in 1..Len(reqs), r2 \in 1..Len(reqs) :
                    r1 < r2 => TierOf(reqs[r1]) <= TierOf(reqs[r2])
            /\ \A point \in DOMAIN out.elevations :
                    out.elevations[point] = None =>
                        \A t \in 1..Len(TierOrder) :
                            Sent(reqs, t, point) /\ ge_svc[t][point] = None
            /\ \A point \in Requested :
                    ge_svc[1][point] # None => ~Sent(reqs, 2, point)
            /\ DOMAIN out.elevations = Requested
            /\ \A point \in Requested :
                    \/ out.elevations[point] = None
                    \/ \E t \in 1..Len(TierOrder) : out.elevations[point] = ge_svc[t][point]
            /\ out.pending_coords = <<>>

\* C10 witness: a call for more coordinates than one request takes has
\* returned with one coordinate not available and one resolved by the second
\* tier only.
C10_Witness ==
    /\ ge_out # None /\ ~ge_out[1].raised
    /\ Len(ge_coords) > BatchSize
    /\ \E p1 \in Requested, p2 \in Requested :
        /\ ge_out[1].elevations[p1] = None
        /\ ge_out[1].elevations[p2] # None
        /\ ge_svc[1][p2] = None

\* The ways to write the name as a prefix without a digit, a run of one or
\* more whitespace characters and a run of one or more digits.
Shapes(name) ==
    {t \in (0..Len(name)) \X (1..Len(name)) \X (1..Len(name)) :
        /\ t[1] + t[2] + t[3] = Len(name)
        /\ NonDigits(name, 1, t[1])
        /\ AllSpace(name, t[1] + 1, t[1] + t[2])
        /\ AllDigits(name, t[1] + t[2] + 1, Len(name))}

RECURSIVE RTrim(_)
RTrim(s) ==
    IF s # <<>> /\ IsSpace(s[Len(s)]) THEN RTrim(SubSeq(s, 1, Len(s) - 1)) ELSE s

\* C5: for a name <prefix><ws><digits>, the prefix without a digit and <ws> one
\* or more whitespace characters, the classifier gives the prefix with its
\* trailing whitespace trimmed as name part, the digits as elevation part and
\* an empty remainder.
C5_PrefixTrimmed ==
    cmatch # None =>
        \A t \in Shapes(cname) :
            /\ cmatch[1] # None
            /\ cmatch[1][1].name_without_ele = RTrim(SubSeq(cname, 1, t[1]))
            /\ cmatch[1][1].ele = SubSeq(cname, t[1] + t[2] + 1, Len(cname))
            /\ cmatch[1][1].rest = <<>>

\* The node carries one ele tag, with a number as its value.
OneNumericEle(tags) ==
    /\ Cardinality(TagsOf(tags, "ele")) = 1
    /\ ParseFloat(tags[LastOf(tags, "ele")].v) # None

\* C2: a candidate node that carries an ele tag with a numeric value is left
\* unmodified when the claimed elevation differs from it by more than 10,
\* whatever the DTM service answers.
C2_ExistingTolerance ==
    \A i \in 1..Len(doc) :
        ( /\ MatchedEmpty(input[i].tags)
          /\ OneNumericEle(input[i].tags)
          /\ Abs(Claimed(input[i].tags)
                 - ParseFloat(input[i].tags[LastOf(input[i].tags, "ele")].v)[1]) > 10 )
        => doc[i] = input[i]

\* C3: a node whose coordinate the DTM service has no elevation for is
\* skipped: logged and left unmodified, the run going on to the next node and
\* to the output.
C3_UnknownIsSkipped ==
    \A i \in 1..Len(doc) :
        ( /\ i <= idx
          /\ MatchedEmpty(input[i].tags)
          /\ Answered(input[i])
          /\ DtmOf(input[i]) = None )
        => /\ ~(pc = "raised" /\ idx = i)
           /\ doc[i] = input[i]
           /\ i < idx => \E l \in 1..Len(log) : log[l].name = NameOf(input[i].tags)

\* The tag of a key that a node is taken to use: the first or the last.
Pick(tags, k, first) == IF first THEN FirstOf(tags, k) ELSE LastOf(tags, k)

\* What shows which natural, name and ele tag the iteration of a node used.
UsesTags(first) ==
    /\ \A i \in Processed :
        LET tags == input[i].tags
            nat == Pick(tags, "natural", first)
            nam == Pick(tags, "name", first)
            ele == Pick(tags, "ele", first)
            candidate == nat # 0 /\ tags[nat].v \in {PEAK, HILL}
            matched == candidate /\ nam # 0 /\ Match[tags[nam].v] # None
        IN  /\ ~matched => doc[i] = input[i]
            /\ (matched /\ Match[tags[nam].v][1].rest # <<>>) =>
                    Logged(Warning(tags[nam].v, "", <<>>))
            /\ (matched /\ Match[tags[nam].v][1].rest = <<>>) => Answered(input[i])
            /\ doc[i] # input[i] =>
                    /\ doc[i].tags[nam].v = Match[tags[nam].v][1].name_without_ele
                    /\ doc[i].tags[Len(tags) + 3].v = tags[nam].v
                    /\ (ele # 0 /\ tags[ele].kids # 0 /\ tags[ele].v # <<>>) =>
                            /\ ParseFloat(tags[ele].v) # None
                            /\ Abs(DecimalValue(Match[tags[nam].v][1].ele)
                                   - ParseFloat(tags[ele].v)[1]) <= 10
    /\ \A l \in 1..Len(log) :
        log[l].what = "existing_ele" =>
            \E i \in Processed :
                LET tags == input[i].tags
                IN  /\ Pick(tags, "name", first) # 0
                    /\ tags[Pick(tags, "name", first)].v = log[l].name
                    /\ Pick(tags, "ele", first) # 0
                    /\ tags[Pick(tags, "ele", first)].v = log[l].value

\* C7 as claimed: of several natural, name or ele tags of a node the first
\* in document order is the one used.
C7_FirstTagUsed == UsesTags(TRUE)

\* C7 as amended: of several natural, name or ele tags of a node the last in
\* document order is the one used: the last natural tag decides candidacy,
\* the last name tag is the one classified and rewritten, and the last ele
\* tag is the only one whose value the cross-check reads.
C7_LastTagUsed == UsesTags(FALSE)

\* C7 witness: a node with two name tags and two ele tags has been rewritten.
C7_Witness ==
    \E i \in Processed :
        /\ Cardinality(TagsOf(input[i].tags, "name")) = 2
        /\ Cardinality(TagsOf(input[i].tags, "ele")) = 2
        /\ doc[i] # input[i]

\* The node reaches the classifier and one of the two patterns matches.
Classified(tags) ==
    LET found == ScanTags(tags)
    IN  /\ IsCandidate(tags, found)
        /\ found.name_tag # 0
        /\ Match[tags[found.name_tag].v] # None

\* C8 as claimed: in a run on the output of a run no node is classified by
\* either pattern, and what the run prints is the document it read.
C8_NothingClassified ==
    pass = 2 =>
        /\ \A i \in 1..Len(input) : ~Classified(input[i].tags)
        /\ pc = "done" => output = Some(input)

\* C8 as amended: in a run on the output of a run, the DTM service answering
\* as before, no node that the first run rewrote is classified by either
\* pattern, no node is rewritten, and what the run prints is the document it
\* read.
C8_SecondPassNoOp ==
    pass = 2 =>
        /\ \A i \in 1..Len(input) :
                HasTag(input[i].tags, "NOTE") => ~Classified(input[i].tags)
        /\ doc = input
        /\ pc = "done" => output = Some(input)

\* C8 witness: the second run has printed a document with a node the first
\* run rewrote and a node that it classified and rejected again.
C8_Witness ==
    /\ pass = 2 /\ pc = "done"
    /\ \E i \in 1..Len(input), j \in 1..Len(input) :
        /\ HasTag(input[i].tags, "NOTE")
        /\ Classified(input[j].tags)
        /\ log # <<>>

====
